---- MODULE Spec2Model ----
(***************************************************************************)
(* Lrthrome: TCP server answering IPv4 longest-prefix lookups.             *)
(* Model of the dispatcher (Lrthrome::up), the peer tasks, the prefix      *)
(* cache and the wire codec of server/src.                                 *)
(*                                                                         *)
(* Conventions.                                                            *)
(*  - A byte is a number in 0..255; a frame is a sequence of bytes.        *)
(*  - A u32 is the tuple of its four bytes, most significant first, so    *)
(*    that no arithmetic leaves TLC's integer range; u32::from(Ipv4Addr)   *)
(*    and Ipv4Addr::from(u32) are then the identity on <<a, b, c, d>>.     *)
(*  - Option<T> is <<>> (None) or <<x>> (Some(x)).                         *)
(*  - Time is counted in ticks of one emission interval of the limiter     *)
(*    (5 s / rate_limit); peer_ttl and cache_ttl are given in ticks.       *)
(***************************************************************************)
EXTENDS Integers, Sequences, FiniteSets, TLC

(***************************************************************************)
(* Bounds of the model and configuration values.                           *)
(***************************************************************************)
\* number of connections accepted in one behaviour
MaxConn == 2
\* number of chunks read from one connection
MaxReads == 1
\* length of the dispatcher's message queue
MaxQueue == 2
\* last instant of the clock
MaxTime == 2
\* number of tempers (the first one included) of one behaviour
MaxTempers == 2
PROTOCOL_VERSION == 1

None == <<>>
Some(x) == <<x>>

(***************************************************************************)
(* u32 and bits                                                            *)
(***************************************************************************)
Pow2(n) == IF n = 0 THEN 1 ELSE IF n = 1 THEN 2 ELSE IF n = 2 THEN 4
           ELSE IF n = 3 THEN 8 ELSE IF n = 4 THEN 16 ELSE IF n = 5 THEN 32
           ELSE IF n = 6 THEN 64 ELSE 128

\* the 32 bits of a u32, most significant first
ToBits(u) == [i \in 1..32 |-> (u[((i - 1) \div 8) + 1] \div Pow2(7 - ((i - 1) % 8))) % 2]

\* key << 1 on 32 bits
Shl(k) == [i \in 1..32 |-> IF i = 32 THEN 0 ELSE k[i + 1]]

Zero32 == [i \in 1..32 |-> 0]

\* a small number as u32
U32(n) == <<0, 0, 0, n>>

\* BufMut::put_u32_le: least significant byte first
put_u32_le(u) == <<u[4], u[3], u[2], u[1]>>

(***************************************************************************)
(* cache.rs: the binary trie                                               *)
(***************************************************************************)
\* Node::new
NewNode == [left |-> None, right |-> None, value |-> None]

\* self.value.clone().or(cur_val)
OrElse(a, b) == IF a # None THEN a ELSE b

RECURSIVE insert(_, _, _, _)
\* Node::insert: one level per leading 1 of the mask, left on a 0 bit of the key
insert(node, key, mask, value) ==
    IF mask = Zero32
    THEN [node EXCEPT !.value = Some(value)]
    ELSE LET goLeft == key[1] = 0
             next_node == IF goLeft THEN node.left ELSE node.right
             boxed == IF next_node # None THEN next_node[1] ELSE NewNode
             grown == insert(boxed, Shl(key), Shl(mask), value)
         IN  IF goLeft THEN [node EXCEPT !.left = Some(grown)]
                       ELSE [node EXCEPT !.right = Some(grown)]

RECURSIVE _find(_, _, _, _)
\* Node::_find: the value of the deepest valued node on the path of the key
_find(node, key, mask, cur_val) ==
    IF mask = Zero32
    THEN OrElse(node.value, cur_val)
    ELSE LET next_node == IF key[1] = 0 THEN node.left ELSE node.right
         IN  IF next_node # None
             THEN _find(next_node[1], Shl(key), Shl(mask), OrElse(node.value, cur_val))
             ELSE OrElse(node.value, cur_val)

\* Node::find
find(node, key, mask) == _find(node, key, mask, None)

\* Ipv4Cidr::mask as bits: len leading ones
MaskBits(len) == [i \in 1..32 |-> IF i <= len THEN 1 ELSE 0]

\* PrefixTree::add_cidr (the stored value is 1)
add_cidr(root, cidr) == insert(root, ToBits(cidr.addr), MaskBits(cidr.len), 1)

\* PrefixTree::contains_addr / Cache::exist
contains_addr(root, addr) == find(root, ToBits(addr), MaskBits(32)) # None

RECURSIVE _depth(_, _, _, _, _)
\* the walk of _find, keeping the depth of the deepest valued node
_depth(node, key, mask, d, cur) ==
    LET here == IF node.value # None THEN Some(d) ELSE cur
    IN  IF mask = Zero32
        THEN here
        ELSE LET next_node == IF key[1] = 0 THEN node.left ELSE node.right
             IN  IF next_node # None
                 THEN _depth(next_node[1], Shl(key), Shl(mask), d + 1, here)
                 ELSE here

\* the first len bits of an address, the rest cleared
Network(addr, len) ==
    [i \in 1..4 |->
        IF 8 * i <= len THEN addr[i]
        ELSE IF 8 * (i - 1) >= len THEN 0
        ELSE (addr[i] \div Pow2(8 * i - len)) * Pow2(8 * i - len)]

\* Cache::longest_match: Option<(prefix, mask_len)> of the longest covering prefix
longest_match(root, addr) ==
    LET d == _depth(root, ToBits(addr), MaskBits(32), 0, None)
    IN  IF d = None THEN None
        ELSE Some([prefix |-> Network(addr, d[1]), len |-> d[1]])

RECURSIVE CountValues(_)
CountValues(node) ==
    (IF node.value # None THEN 1 ELSE 0)
    + (IF node.left # None THEN CountValues(node.left[1]) ELSE 0)
    + (IF node.right # None THEN CountValues(node.right[1]) ELSE 0)

\* Cache::len: number of prefixes held
CacheLen(root) == CountValues(root)

RECURSIVE AddAll(_, _)
\* for cidr in iter { self.tree.add_cidr(&cidr) }
AddAll(root, cidrs) ==
    IF cidrs = <<>> THEN root
    ELSE AddAll(add_cidr(root, Head(cidrs)), Tail(cidrs))

\* does the prefix cover the address
Covers(cidr, addr) == Network(addr, cidr.len) = cidr.addr

\* the prefixes a tree holds, among a set of candidates: the valued nodes
RECURSIVE Held(_, _, _)
Held(node, path, d) ==
    (IF node.value # None THEN {<<path, d>>} ELSE {})
    \cup (IF node.left # None THEN Held(node.left[1], [path EXCEPT ![d + 1] = 0], d + 1) ELSE {})
    \cup (IF node.right # None THEN Held(node.right[1], [path EXCEPT ![d + 1] = 1], d + 1) ELSE {})

\* the set of (bits, length) pairs of the prefixes in the tree
TreeSet(root) == Held(root, Zero32, 0)

\* a prefix as the (bits, length) pair under which the tree holds it
AsEntry(cidr) == <<ToBits(cidr.addr), cidr.len>>

(***************************************************************************)
(* protocol.rs: the wire codec.  Strings are sequences of ASCII codes.     *)
(***************************************************************************)
VEstablished == 0
VIdentify == 1
VRequest == 2
VResponseOkFound == 3
VResponseOkNotFound == 4
VResponseError == 5

Drop(s, n) == SubSeq(s, n + 1, Len(s))

\* ProtocolVersion::try_from
ProtocolVersion_try_from(value) ==
    IF value # PROTOCOL_VERSION
    THEN [ok |-> FALSE, err |-> "VersionMismatch", received |-> value]
    ELSE [ok |-> TRUE, version |-> value]

\* only Request is taken for a variant
Variant_request_only(value) ==
    IF value = VRequest
    THEN [ok |-> TRUE, variant |-> value]
    ELSE [ok |-> FALSE, err |-> "InvalidMessageVariant", received |-> value]

\* Variant::try_from
Variant_try_from(value) ==
    IF value \in {VEstablished, VIdentify, VRequest, VResponseOkFound,
                  VResponseOkNotFound, VResponseError}
    THEN [ok |-> TRUE, variant |-> value]
    ELSE [ok |-> FALSE, err |-> "InvalidMessageVariant", received |-> value]

\* the error of a nom parser: map_res keeps the input position and the kind
\* MapRes, not the error its function returned
NomError == [ok |-> FALSE]

\* Header::parse
Header_parse(input) ==
    IF Len(input) < 1 THEN NomError
    ELSE IF ~ProtocolVersion_try_from(input[1]).ok THEN NomError
    ELSE IF Len(input) < 2 THEN NomError
    ELSE IF ~Variant_try_from(input[2]).ok THEN NomError
    ELSE [ok |-> TRUE, rest |-> Drop(input, 2),
          header |-> [protocol_version |-> input[1], variant |-> input[2]]]

\* the two bytes of the header written variant first
Header_variant_first(variant) == <<variant, PROTOCOL_VERSION>>

\* Header::new(variant).to_bytes()
Header_to_bytes(variant) == <<PROTOCOL_VERSION, variant>>

\* number of leading bytes other than 0: take_while(|b| b != 0)
RECURSIVE TakeWhileNonZero(_)
TakeWhileNonZero(input) ==
    IF input = <<>> \/ Head(input) = 0 THEN 0
    ELSE 1 + TakeWhileNonZero(Tail(input))

\* the bytes before the first 0x00, or all of them when there is none
parse_cstring_unterminated(input) ==
    LET n == TakeWhileNonZero(input)
    IN  [ok |-> TRUE, rest |-> Drop(input, n + 1), str |-> SubSeq(input, 1, n)]

\* parse_cstring: the bytes before the first 0x00, which must be there
\* (the strings of the model are ASCII, on which from_utf8 succeeds)
parse_cstring(input) ==
    LET n == TakeWhileNonZero(input)
    IN  IF n >= Len(input) THEN NomError
        ELSE [ok |-> TRUE, rest |-> Drop(input, n + 1), str |-> SubSeq(input, 1, n)]

RECURSIVE CountPairs(_, _)
\* count(pair(parse_cstring, parse_cstring), n)
CountPairs(input, n) ==
    IF n = 0 THEN [ok |-> TRUE, rest |-> input, v |-> <<>>]
    ELSE LET k == parse_cstring(input)
         IN  IF ~k.ok THEN NomError
             ELSE LET w == parse_cstring(k.rest)
                  IN  IF ~w.ok THEN NomError
                      ELSE LET more == CountPairs(w.rest, n - 1)
                           IN  IF ~more.ok THEN NomError
                               ELSE [ok |-> TRUE, rest |-> more.rest,
                                     v |-> <<(<<k.str, w.str>>)>> \o more.v]

\* v.into_iter().collect() into a HashMap: one value for each key, that of the
\* last pair with the key
Collect(v) ==
    LET last(k) == CHOOSE i \in DOMAIN v : v[i][1] = k /\ \A j \in DOMAIN v : v[j][1] = k => j <= i
    IN  [k \in {v[i][1] : i \in DOMAIN v} |-> v[last(k)][2]]

\* Identify::parse
Identify_parse(input) ==
    LET s == parse_cstring(input)
    IN  IF ~s.ok THEN NomError
        ELSE [ok |-> TRUE, rest |-> s.rest, identify |-> [identification |-> s.str]]

\* the four bytes read most significant first
be_u32(input) == <<input[1], input[2], input[3], input[4]>>

\* le_u32 followed by Ipv4Addr::from: the first wire byte is the least
\* significant byte of the u32, hence the last octet of the address
le_u32(input) == <<input[4], input[3], input[2], input[1]>>

\* Request::parse
Request_parse(input) ==
    IF Len(input) < 4 THEN NomError
    ELSE IF Len(input) < 5 THEN NomError
    ELSE LET pairs == CountPairs(Drop(input, 5), input[5])
         IN  IF ~pairs.ok THEN NomError
             ELSE [ok |-> TRUE, rest |-> pairs.rest,
                   request |-> [ip_address |-> le_u32(input),
                                meta_count |-> input[5],
                                meta |-> Collect(pairs.v)]]

\* the Established frame with tree_size written before rate_limit
Established_fields_swapped(e) ==
    Header_to_bytes(VEstablished) \o put_u32_le(e.tree_size) \o put_u32_le(e.rate_limit)
    \o put_u32_le(e.cache_ttl) \o put_u32_le(e.peer_ttl) \o e.banner \o <<0>>

\* Established::to_bytes
Established_to_bytes(e) ==
    Header_to_bytes(VEstablished) \o put_u32_le(e.rate_limit) \o put_u32_le(e.tree_size)
    \o put_u32_le(e.cache_ttl) \o put_u32_le(e.peer_ttl) \o e.banner \o <<0>>

\* ResponseOkFound::to_bytes
ResponseOkFound_to_bytes(r) ==
    Header_to_bytes(VResponseOkFound) \o put_u32_le(r.ip_address) \o put_u32_le(r.prefix)
    \o put_u32_le(r.mask_len)

\* ResponseOkNotFound::to_bytes
ResponseOkNotFound_to_bytes(r) ==
    Header_to_bytes(VResponseOkNotFound) \o put_u32_le(r.ip_address)

\* ResponseError::to_bytes
ResponseError_to_bytes(r) ==
    Header_to_bytes(VResponseError) \o <<r.code>> \o r.message \o <<0>>

\* the parsers protocol.rs has for the body that follows a header: those of
\* Identify and Request; no other variant has one
Decode(frame) ==
    LET h == Header_parse(frame)
    IN  IF ~h.ok THEN None
        ELSE IF h.header.variant = VIdentify
        THEN LET i == Identify_parse(h.rest)
             IN  IF i.ok THEN Some(i.identify) ELSE None
        ELSE IF h.header.variant = VRequest
        THEN LET r == Request_parse(h.rest)
             IN  IF r.ok THEN Some(r.request) ELSE None
        ELSE None

\* the encoders protocol.rs has: to_bytes of the four messages the server sends
Encode(m) ==
    CASE m.variant = VEstablished -> Established_to_bytes(m)
      [] m.variant = VResponseOkFound -> ResponseOkFound_to_bytes(m)
      [] m.variant = VResponseOkNotFound -> ResponseOkNotFound_to_bytes(m)
      [] m.variant = VResponseError -> ResponseError_to_bytes(m)

(***************************************************************************)
(* error.rs                                                                *)
(***************************************************************************)
\* "Malformed payload"
MsgMalformedPayload ==
    <<77, 97, 108, 102, 111, 114, 109, 101, 100, 32, 112, 97, 121, 108, 111, 97, 100>>
\* "Exceeded ratelimit"
MsgRatelimited ==
    <<69, 120, 99, 101, 101, 100, 101, 100, 32, 114, 97, 116, 101, 108, 105, 109, 105, 116>>

RECURSIVE Decimal(_)
\* Display of a u8
Decimal(n) == IF n < 10 THEN <<48 + n>> ELSE Decimal(n \div 10) \o <<48 + (n % 10)>>

\* "Mismatching protocol version, expected {expected}, received {received}"
MsgVersionMismatch(expected, received) ==
    <<77, 105, 115, 109, 97, 116, 99, 104, 105, 110, 103, 32, 112, 114, 111, 116, 111, 99, 111, 108, 32, 118, 101, 114, 115, 105, 111, 110, 44, 32, 101, 120, 112, 101, 99, 116, 101, 100, 32>>
    \o Decimal(expected)
    \o <<44, 32, 114, 101, 99, 101, 105, 118, 101, 100, 32>>
    \o Decimal(received)

\* LrthromeError::code
ErrorCode(e) ==
    CASE e = "MalformedPayload" -> 0
      [] e = "Ratelimited" -> 1
      [] e = "VersionMismatch" -> 2
      [] e = "InvalidMessageVariant" -> 3
      [] OTHER -> 255

\* Display of LrthromeError for the two errors process_frame returns
ErrorToString(e) ==
    IF e = "MalformedPayload" THEN MsgMalformedPayload ELSE MsgRatelimited

(***************************************************************************)
(* The limiter: KeyedRateLimiter<IpAddr, GCRA>::new(rate_limit, 5 s).      *)
(* An entry is the theoretical arrival time of the next cell.  In ticks    *)
(* the emission interval is 1 and the tolerance is rate_limit.             *)
(***************************************************************************)
Max(a, b) == IF a >= b THEN a ELSE b

\* the arrival time a key starts with
StartTat(t0) == t0 + 1

\* GCRA: the cell conforms unless it arrives before tat - tau; tau is the
\* Duration::from_secs(5) of Lrthrome::new, which is rate_limit ticks
Conforms(entry, t0, rate_limit) ==
    LET tat == IF entry = None THEN StartTat(t0) ELSE entry[1]
    IN  ~(t0 < tat - rate_limit)

\* the entry after a conforming cell
NextTat(entry, t0) ==
    LET tat == IF entry = None THEN StartTat(t0) ELSE entry[1]
    IN  Some(Max(tat, t0) + 1)

(***************************************************************************)
(* The inputs of the model                                                 *)
(***************************************************************************)
ClientIp == <<192, 0, 2, 7>>
\* socket addresses of clients: <<ip, port>>
SockAddrs == {<<ClientIp, port>> : port \in 1..MaxConn}
AddrIp(addr) == addr[1]

\* Config.general.banner: "hi"
Banner == <<104, 105>>

Cidr(a, b, c, d, len) == [addr |-> <<a, b, c, d>>, len |-> len]
Net10 == Cidr(10, 0, 0, 0, 8)
Net10_1 == Cidr(10, 1, 0, 0, 16)
Host10 == Cidr(10, 1, 2, 3, 32)
NetAll == Cidr(0, 0, 0, 0, 0)

\* number of registered sources
NumSources == 2

\* what one call of iterate_cidr returns: an error or a finite list
FetchErr == [ok |-> FALSE]
FetchOk(cidrs) == [ok |-> TRUE, cidrs |-> cidrs]

\* a Request frame with the given four ip bytes and no meta pair
RequestFrame(w) == <<PROTOCOL_VERSION, VRequest>> \o w \o <<0>>

(***************************************************************************)
(* State                                                                   *)
(***************************************************************************)
VARIABLES
    config,     \* Config.general: [rate_limit, peer_ttl, cache_ttl]
    dstate,     \* Lrthrome::up: "new", "tempering", "running", "done" (Ok), "failed" (Err)
    temper,     \* the temper in progress (or the one that failed): index of the source
                \* awaited, and whether up() started it
    tree,       \* shared.cache: the root of the trie
    peers,      \* HashMap<SocketAddr, PeerRegistry>: Option of [last_request, conn]
    rx,         \* the dispatcher's queue of Messages
    limiter,    \* ratelimiter: per ip, Option of the arrival time
    now,        \* the clock
    timers,     \* the instants at which the two timer tasks wake up
    conns,      \* per connection: the peer task, its channels and its socket; and as
                \* history the number of prefixes in the tree when it was accepted
                \* and the addresses of its Requests that passed the rate check
    ntempers,   \* tempers started
    loaded,     \* history: the prefixes the fetchers returned in the last temper
    treeBefore, \* history: the tree when the last temper started
    allowedAt,  \* history: per ip, the instants of the Requests that passed the check
    call,       \* a function of the codec called on its own: Some([fn, arg]), or None
    returned    \* what that call returned: Some(value), or None before it returns

vars == <<config, dstate, temper, tree, peers, rx, limiter, now, timers, conns, ntempers,
          loaded, treeBefore, allowedAt, call, returned>>

Ips == {AddrIp(a) : a \in SockAddrs}
ConnIds == 1..MaxConn

\* a connection slot not yet used by an accept
Unused == [addr |-> None, task |-> "unused", outq |-> <<>>, changed |-> FALSE,
           wire |-> <<>>, reads |-> 0, sock |-> "open", exit |-> "", tree_size |-> 0,
           asked |-> <<>>]

\* Lrthrome::new, with the configuration given
InitWith(cfg) ==
    /\ config = cfg
    /\ dstate = "new"
    /\ temper = [idx |-> 0, boot |-> FALSE]
    /\ tree = NewNode
    /\ peers = [a \in SockAddrs |-> None]
    /\ rx = <<>>
    /\ limiter = [i \in Ips |-> None]
    /\ now = 0
    /\ timers = [cache |-> 0, peer |-> 0]
    /\ conns = [c \in ConnIds |-> Unused]
    /\ ntempers = 0
    /\ loaded = {}
    /\ treeBefore = NewNode
    /\ allowedAt = [i \in Ips |-> <<>>]

\* no function of the codec is called on its own
NoCall == call = None /\ returned = None

Alive == dstate \in {"new", "tempering", "running"}

\* the registry entry of the connection is still in the map: its senders live
Registered(c) ==
    /\ conns[c].task # "unused"
    /\ peers[conns[c].addr] # None
    /\ peers[conns[c].addr][1].conn = c

SendersAlive(c) == Alive /\ Registered(c)

\* Lrthrome::peer_send: the send fails (and is logged) once the task dropped rx_bytes
peer_send(cs, c, payload) ==
    IF cs[c].task # "exited" THEN [cs EXCEPT ![c].outq = Append(@, payload)] ELSE cs

\* Lrthrome::shutdown_peer: the send fails (and is logged) once the task dropped rx_shutdown
shutdown_peer(cs, c) ==
    IF cs[c].task # "exited" THEN [cs EXCEPT ![c].changed = TRUE] ELSE cs

\* the error frame alone, without the shutdown signal
peer_error_no_shutdown(cs, c, e) ==
    peer_send(cs, c, ResponseError_to_bytes([code |-> ErrorCode(e),
                                             message |-> ErrorToString(e)]))

\* the error frame for the peer, the shutdown signal for every peer
peer_error_all(cs, c, e) ==
    LET sent == peer_send(cs, c, ResponseError_to_bytes([code |-> ErrorCode(e),
                                                         message |-> ErrorToString(e)]))
    IN  [d \in DOMAIN cs |-> shutdown_peer(sent, d)[d]]

\* Lrthrome::peer_error
peer_error(cs, c, e) ==
    shutdown_peer(
        peer_send(cs, c, ResponseError_to_bytes([code |-> ErrorCode(e),
                                                 message |-> ErrorToString(e)])),
        c)

\* Duration::from_secs(60) of Lrthrome::cleanup, in ticks: 12 windows
CleanupAge == 12 * config.rate_limit

\* Lrthrome::cleanup: entries idle for the grace period are dropped
cleanup(lim) ==
    [i \in Ips |-> IF lim[i] # None /\ lim[i][1] + CleanupAge <= now THEN None ELSE lim[i]]

(***************************************************************************)
(* The dispatcher: Lrthrome::up                                            *)
(***************************************************************************)
\* up() enters its loop without the first temper
Up_without_temper ==
    /\ dstate = "new"
    /\ dstate' = "running"
    /\ timers' = [cache |-> now + config.cache_ttl, peer |-> now + config.peer_ttl]
    /\ UNCHANGED <<call, returned, config, temper, tree, peers, rx, limiter, now, conns,
                   ntempers, treeBefore, loaded, allowedAt>>

\* up(): start_timers, then the first temper awaits its first source
Up ==
    /\ dstate = "new"
    /\ dstate' = "tempering"
    /\ temper' = [idx |-> 1, boot |-> TRUE]
    /\ timers' = [cache |-> now + config.cache_ttl, peer |-> now + config.peer_ttl]
    /\ ntempers' = ntempers + 1
    /\ treeBefore' = tree
    /\ loaded' = {}
    /\ UNCHANGED <<call, returned, config, tree, peers, rx, limiter, now, conns, allowedAt>>

\* Message::CacheTick: temper_cache awaits its first source
HandleCacheTick ==
    /\ dstate = "running"
    /\ rx # <<>> /\ Head(rx).kind = "CacheTick"
    /\ rx' = Tail(rx)
    /\ dstate' = "tempering"
    /\ temper' = [idx |-> 1, boot |-> FALSE]
    /\ ntempers' = ntempers + 1
    /\ treeBefore' = tree
    /\ loaded' = {}
    /\ UNCHANGED <<call, returned, config, tree, peers, limiter, now, timers, conns, allowedAt>>

\* the temper is left as finished when its first source has returned
TemperSource_early(outcome) ==
    /\ dstate = "tempering"
    /\ outcome.ok
    /\ tree' = AddAll(tree, outcome.cidrs)
    /\ loaded' = loaded \cup {outcome.cidrs[i] : i \in 1..Len(outcome.cidrs)}
    /\ dstate' = "running"
    /\ temper' = temper
    /\ UNCHANGED <<call, returned, config, peers, rx, limiter, now, timers, conns, ntempers, treeBefore, allowedAt>>

\* Cache::temper, one source: iterate_cidr returns; on Ok its prefixes are added
\* to the tree, on Err the error leaves temper, temper_cache and up
TemperSource(outcome) ==
    /\ dstate = "tempering"
    /\ IF outcome.ok
       THEN /\ tree' = AddAll(tree, outcome.cidrs)
            /\ loaded' = loaded \cup {outcome.cidrs[i] : i \in 1..Len(outcome.cidrs)}
            /\ IF temper.idx = NumSources
               THEN /\ dstate' = "running"
                    /\ temper' = [idx |-> 0, boot |-> FALSE]
               ELSE /\ dstate' = dstate
                    /\ temper' = [temper EXCEPT !.idx = @ + 1]
       ELSE /\ tree' = tree
            /\ loaded' = loaded
            /\ dstate' = "failed"
            /\ temper' = temper
    /\ UNCHANGED <<call, returned, config, peers, rx, limiter, now, timers, conns, ntempers, treeBefore, allowedAt>>

\* tokio::signal::ctrl_c
Interrupt ==
    /\ dstate = "running"
    /\ dstate' = "done"
    /\ UNCHANGED <<call, returned, config, temper, tree, peers, rx, limiter, now, timers, conns, ntempers,
                   loaded, treeBefore, allowedAt>>

\* the slot the next accepted connection takes
FreeConn ==
    IF \E c \in ConnIds : conns[c].task = "unused"
    THEN CHOOSE c \in ConnIds : conns[c].task = "unused" /\
                \A d \in ConnIds : conns[d].task = "unused" => c <= d
    ELSE 0

\* listener.accept(): registry entry, Established frame, peer task
Accept(addr) ==
    /\ dstate = "running"
    /\ \E c \in ConnIds : conns[c].task = "unused"
    \* the socket address of an open connection is not accepted again
    /\ \A c \in ConnIds : conns[c].addr = addr => conns[c].task = "exited"
    /\ LET c == FreeConn
           payload == Established_to_bytes([rate_limit |-> U32(config.rate_limit),
                                            tree_size |-> U32(CacheLen(tree)),
                                            cache_ttl |-> U32(config.cache_ttl),
                                            peer_ttl |-> U32(config.peer_ttl),
                                            banner |-> Banner])
       IN  /\ conns' = [conns EXCEPT ![c] = [addr |-> addr, task |-> "running",
                                             outq |-> <<payload>>, changed |-> FALSE,
                                             wire |-> <<>>, reads |-> 0, sock |-> "open",
                                             exit |-> "",
                                             tree_size |-> Cardinality(TreeSet(tree)),
                                             asked |-> <<>>]]
           /\ peers' = [peers EXCEPT ![addr] = Some([last_request |-> now, conn |-> c])]
    /\ UNCHANGED <<call, returned, config, dstate, temper, tree, rx, limiter, now, timers, ntempers,
                   loaded, treeBefore, allowedAt>>

\* Message::PeerDisconnected taken from the queue, the registry left as it is
HandlePeerDisconnected_keep ==
    /\ dstate = "running"
    /\ rx # <<>> /\ Head(rx).kind = "PeerDisconnected"
    /\ rx' = Tail(rx)
    /\ UNCHANGED <<call, returned, config, dstate, temper, tree, peers, limiter, now, timers, conns,
                   ntempers, loaded, treeBefore, allowedAt>>

\* Message::PeerDisconnected
HandlePeerDisconnected ==
    /\ dstate = "running"
    /\ rx # <<>> /\ Head(rx).kind = "PeerDisconnected"
    /\ rx' = Tail(rx)
    /\ peers' = [peers EXCEPT ![Head(rx).addr] = None]
    /\ UNCHANGED <<call, returned, config, dstate, temper, tree, limiter, now, timers, conns, ntempers,
                   loaded, treeBefore, allowedAt>>

\* the orders in which HashMap::values may yield the entries of the registry
Orders ==
    LET S == {a \in SockAddrs : peers[a] # None}
    IN  {f \in [1..Cardinality(S) -> S] : \A i, j \in 1..Cardinality(S) : f[i] = f[j] => i = j}

RECURSIVE Sweep(_, _)
\* the loop of sweep_peers: tx_shutdown.send(true)? on every idle entry; the send
\* fails when the task has dropped its receiver, and the error ends the loop
Sweep(order, cs) ==
    IF order = <<>> THEN [ok |-> TRUE, conns |-> cs]
    ELSE LET p == peers[Head(order)][1]
         IN  IF ~(now - p.last_request > config.peer_ttl) THEN Sweep(Tail(order), cs)
             ELSE IF cs[p.conn].task = "exited" THEN [ok |-> FALSE, conns |-> cs]
             ELSE Sweep(Tail(order), [cs EXCEPT ![p.conn].changed = TRUE])

\* Lrthrome::sweep_peers
sweep_peers(order) == Sweep(order, conns)

\* Message::PeerTick: self.sweep_peers()?
HandlePeerTick ==
    /\ dstate = "running"
    /\ rx # <<>> /\ Head(rx).kind = "PeerTick"
    /\ rx' = Tail(rx)
    /\ \E order \in Orders :
         LET r == sweep_peers(order)
         IN  /\ conns' = r.conns
             /\ dstate' = IF r.ok THEN "running" ELSE "failed"
    /\ UNCHANGED <<call, returned, config, temper, tree, peers, limiter, now, timers, ntempers,
                   loaded, treeBefore, allowedAt>>

\* the outcome of the check is not used
check_unused(ip) == TRUE

\* self.ratelimiter.check(addr.ip()).is_ok()
check(ip) == Conforms(limiter[ip], now, config.rate_limit)

\* Lrthrome::process_frame, as the decision it takes on a frame of addr:
\*   err      "" for Ok(()), else the LrthromeError returned
\*   checked  the limiter was consulted
\*   allowed  the Request passed the check
\*   looked   Some(address looked up) when the cache was read
\*   reply    Some(bytes) passed to peer_send
process_frame(addr, frame) ==
    LET h == Header_parse(frame)
        quiet == [err |-> "", checked |-> FALSE, allowed |-> FALSE,
                  looked |-> None, reply |-> None]
    IN  IF ~h.ok THEN [quiet EXCEPT !.err = "MalformedPayload"]
        ELSE IF h.header.variant = VRequest
        THEN LET r == Request_parse(h.rest)
             IN  IF ~r.ok THEN [quiet EXCEPT !.err = "MalformedPayload"]
                 ELSE IF peers[addr] = None THEN quiet
                 ELSE IF ~check(AddrIp(addr))
                 THEN [quiet EXCEPT !.err = "Ratelimited", !.checked = TRUE]
                 ELSE LET ip == r.request.ip_address
                          m == longest_match(tree, ip)
                          resp == IF m # None
                                  THEN ResponseOkFound_to_bytes(
                                           [ip_address |-> ip, prefix |-> m[1].prefix,
                                            mask_len |-> U32(m[1].len)])
                                  ELSE ResponseOkNotFound_to_bytes([ip_address |-> ip])
                      IN  [err |-> "", checked |-> TRUE, allowed |-> TRUE,
                           looked |-> Some(ip), reply |-> Some(resp)]
        ELSE quiet

\* Message::PeerFrame: process_frame, and on Err peer_error and cleanup if the
\* address is still registered
HandlePeerFrame ==
    /\ dstate = "running"
    /\ rx # <<>> /\ Head(rx).kind = "PeerFrame"
    /\ rx' = Tail(rx)
    /\ \E res \in {process_frame(Head(rx).addr, Head(rx).buf)} :
       LET addr == Head(rx).addr
           ip == AddrIp(addr)
           reg == peers[addr] # None
           c == peers[addr][1].conn
       IN  /\ limiter' = IF res.allowed THEN [limiter EXCEPT ![ip] = NextTat(@, now)]
                         ELSE IF res.err # "" /\ reg THEN cleanup(limiter)
                         ELSE limiter
           /\ allowedAt' = IF res.allowed THEN [allowedAt EXCEPT ![ip] = Append(@, now)]
                           ELSE allowedAt
           /\ peers' = IF res.allowed THEN [peers EXCEPT ![addr][1].last_request = now]
                       ELSE peers
           /\ LET sent == IF res.reply # None THEN peer_send(conns, c, res.reply[1])
                           ELSE IF res.err # "" /\ reg THEN peer_error(conns, c, res.err)
                           ELSE conns
              IN  conns' = IF res.allowed
                           THEN [sent EXCEPT ![c].asked = Append(@, res.looked[1])]
                           ELSE sent
    /\ UNCHANGED <<call, returned, config, dstate, temper, tree, now, timers, ntempers, loaded, treeBefore>>

(***************************************************************************)
(* The peer task: the loop of Lrthrome::process_peer                       *)
(***************************************************************************)
\* break: the loop is left, the peer and its receivers still live.  The branch
\* of select! that left the loop is kept in exit.
Break(c, branch) ==
    conns' = [conns EXCEPT ![c].task = "leaving", ![c].exit = branch]

\* the future ends without a PeerDisconnected
PeerDisconnect_silent(c) ==
    /\ conns[c].task = "leaving"
    /\ conns' = [conns EXCEPT ![c].task = "exited"]
    /\ UNCHANGED <<call, returned, config, dstate, temper, tree, peers, rx, limiter, now, timers,
                   ntempers, loaded, treeBefore, allowedAt>>

\* after the loop: PeerDisconnected is sent and the future ends, which drops the
\* peer (socket, receivers); frames left in the outbound queue are never written
PeerDisconnect(c) ==
    /\ conns[c].task = "leaving"
    /\ conns' = [conns EXCEPT ![c].task = "exited"]
    /\ rx' = IF Alive THEN Append(rx, [kind |-> "PeerDisconnected", addr |-> conns[c].addr])
             ELSE rx
    /\ UNCHANGED <<call, returned, config, dstate, temper, tree, peers, limiter, now, timers, ntempers,
                   loaded, treeBefore, allowedAt>>

\* the shutdown branch taken only on a value, not when the sender is gone
PeerShutdown_on_value(c) ==
    /\ conns[c].task = "running"
    /\ conns[c].changed
    /\ Break(c, "shutdown")
    /\ UNCHANGED <<call, returned, config, dstate, temper, tree, peers, rx, limiter, now, timers,
                   ntempers, loaded, treeBefore, allowedAt>>

\* peer.rx_shutdown.changed(): a value was sent, or the sender is gone
PeerShutdown(c) ==
    /\ conns[c].task = "running"
    /\ conns[c].changed \/ ~SendersAlive(c)
    /\ Break(c, "shutdown")
    /\ UNCHANGED <<call, returned, config, dstate, temper, tree, peers, rx, limiter, now, timers, ntempers,
                   loaded, treeBefore, allowedAt>>

\* the newest frame of the queue is written instead of the oldest
PeerWrite_newest(c) ==
    /\ conns[c].task = "running"
    /\ conns[c].outq # <<>>
    /\ conns[c].sock = "open"
    /\ conns' = [conns EXCEPT ![c].outq = SubSeq(@, 1, Len(@) - 1),
                              ![c].wire = Append(@, conns[c].outq[Len(conns[c].outq)])]
    /\ UNCHANGED <<call, returned, config, dstate, temper, tree, peers, rx, limiter, now, timers, ntempers,
                   loaded, treeBefore, allowedAt>>

\* Some(bytes) = peer.rx_bytes.recv(), written to the socket
PeerWrite(c) ==
    /\ conns[c].task = "running"
    /\ conns[c].outq # <<>>
    /\ conns[c].sock = "open"
    /\ conns' = [conns EXCEPT ![c].outq = Tail(@), ![c].wire = Append(@, Head(conns[c].outq))]
    /\ UNCHANGED <<call, returned, config, dstate, temper, tree, peers, rx, limiter, now, timers, ntempers,
                   loaded, treeBefore, allowedAt>>

\* Some(bytes) = peer.rx_bytes.recv(), and peer.frame.send fails: the error is
\* logged and the loop goes on
PeerWriteFail(c) ==
    /\ conns[c].task = "running"
    /\ conns[c].outq # <<>>
    /\ conns' = [conns EXCEPT ![c].outq = Tail(@), ![c].sock = "broken"]
    /\ UNCHANGED <<call, returned, config, dstate, temper, tree, peers, rx, limiter, now, timers, ntempers,
                   loaded, treeBefore, allowedAt>>

\* peer.frame.next() yields Some(Ok(buf)): forwarded as PeerFrame
PeerRead(c, buf) ==
    /\ conns[c].task = "running"
    /\ conns[c].sock = "open"
    /\ Alive
    /\ conns' = [conns EXCEPT ![c].reads = @ + 1]
    /\ rx' = Append(rx, [kind |-> "PeerFrame", addr |-> conns[c].addr, buf |-> buf])
    /\ UNCHANGED <<call, returned, config, dstate, temper, tree, peers, limiter, now, timers, ntempers,
                   loaded, treeBefore, allowedAt>>

\* peer.frame.next() yields None (the client closed) or Some(Err(_))
PeerReadEnd(c) ==
    /\ conns[c].task = "running"
    /\ Break(c, "end")
    /\ UNCHANGED <<call, returned, config, dstate, temper, tree, peers, rx, limiter, now, timers, ntempers,
                   loaded, treeBefore, allowedAt>>

(***************************************************************************)
(* The timer tasks of start_timers, and the clock                          *)
(***************************************************************************)
QueuedTicks(kind) == Cardinality({i \in 1..Len(rx) : rx[i].kind = kind})

\* sleep(cache_ttl) is over: CacheTick is sent
CacheTimer ==
    /\ dstate \in {"tempering", "running"}
    /\ now >= timers.cache
    /\ rx' = Append(rx, [kind |-> "CacheTick"])
    /\ timers' = [timers EXCEPT !.cache = now + config.cache_ttl]
    /\ UNCHANGED <<call, returned, config, dstate, temper, tree, peers, limiter, now, conns, ntempers,
                   loaded, treeBefore, allowedAt>>

\* sleep(peer_ttl) is over: PeerTick is sent
PeerTimer ==
    /\ dstate \in {"tempering", "running"}
    /\ now >= timers.peer
    /\ rx' = Append(rx, [kind |-> "PeerTick"])
    /\ timers' = [timers EXCEPT !.peer = now + config.peer_ttl]
    /\ UNCHANGED <<call, returned, config, dstate, temper, tree, peers, limiter, now, conns, ntempers,
                   loaded, treeBefore, allowedAt>>

\* time passes
Tick ==
    /\ now' = now + 1
    /\ UNCHANGED <<call, returned, config, dstate, temper, tree, peers, rx, limiter, timers, conns, ntempers,
                   loaded, treeBefore, allowedAt>>

(***************************************************************************)
(* Specifications.  Each one runs the same actions on a part of the        *)
(* inputs: what the sources return, what the clients send, who connects,   *)
(* within the bounds of the model.                                         *)
(***************************************************************************)
Addr1 == <<ClientIp, 1>>

\* room in the queue for one more frame or tick
Room == Len(rx) < MaxQueue
\* the connection may read one more chunk
MayRead(c, n) == conns[c].reads < n
\* connection slot c is taken by the client at port c
InOrder(a) == a[2] = FreeConn
\* one more CacheTick leads to a temper within the bound
MayTemper == ntempers + QueuedTicks("CacheTick") < MaxTempers
Before(t) == now < t

\* Spec: the dispatcher and two peer tasks; the sources return 10.0.0.0/8.
Outcomes == {FetchOk(<<Net10>>)}
Chunks == {RequestFrame(<<3, 2, 1, 10>>), <<100, 1>>}

Next ==
    \/ Up
    \/ \E o \in Outcomes : TemperSource(o)
    \/ \E a \in SockAddrs : InOrder(a) /\ Accept(a)
    \/ HandlePeerDisconnected
    \/ HandlePeerTick
    \/ HandlePeerFrame
    \/ \E c \in ConnIds : PeerShutdown(c)
    \/ \E c \in ConnIds : PeerWrite(c)
    \/ \E c \in ConnIds, b \in Chunks : Room /\ MayRead(c, MaxReads) /\ PeerRead(c, b)
    \/ \E c \in ConnIds : PeerReadEnd(c)
    \/ \E c \in ConnIds : PeerDisconnect(c)
    \/ (Room /\ PeerTimer)
    \/ (Before(MaxTime) /\ Tick)

Init == InitWith([rate_limit |-> 1, peer_ttl |-> 1, cache_ttl |-> 2]) /\ NoCall

Spec == Init /\ [][Next]_vars

\* SpecCache: tempers and lookups of one client.
CacheOutcomes == {FetchErr, FetchOk(<<>>), FetchOk(<<Net10>>), FetchOk(<<Net10_1>>),
                  FetchOk(<<NetAll>>)}
CacheChunks == {RequestFrame(<<3, 2, 1, 10>>), RequestFrame(<<10, 1, 2, 3>>),
                RequestFrame(<<9, 9, 1, 10>>)}

NextCache ==
    \/ Up
    \/ HandleCacheTick
    \/ \E o \in CacheOutcomes : TemperSource(o)
    \/ (InOrder(Addr1) /\ Accept(Addr1))
    \/ HandlePeerFrame
    \/ PeerWrite(1)
    \/ \E b \in CacheChunks : Room /\ MayRead(1, MaxReads) /\ PeerRead(1, b)
    \/ (Room /\ MayTemper /\ CacheTimer)
    \/ (Before(MaxTime) /\ Tick)
    \/ Interrupt

InitCache == InitWith([rate_limit |-> 2, peer_ttl |-> 1, cache_ttl |-> 1]) /\ NoCall

SpecCache == InitCache /\ [][NextCache]_vars

\* SpecRefresh: tempers of two prefixes, and the lookups of one client.
RefreshOutcomes == {FetchErr, FetchOk(<<Net10>>), FetchOk(<<Net10_1>>)}
RefreshChunks == {RequestFrame(<<3, 2, 1, 10>>), RequestFrame(<<10, 1, 2, 3>>)}

NextRefresh ==
    \/ Up
    \/ HandleCacheTick
    \/ \E o \in RefreshOutcomes : TemperSource(o)
    \/ (InOrder(Addr1) /\ Accept(Addr1))
    \/ HandlePeerFrame
    \/ PeerWrite(1)
    \/ \E b \in RefreshChunks : Room /\ MayRead(1, MaxReads) /\ PeerRead(1, b)
    \/ (Room /\ MayTemper /\ CacheTimer)
    \/ (Before(MaxTime) /\ Tick)
    \/ Interrupt

SpecRefresh == InitCache /\ [][NextRefresh]_vars

\* SpecEdge: the sources return nothing, 0.0.0.0/0 or the host 10.1.2.3/32; the
\* client asks for that host, for its neighbour and for 138.1.2.3.
EdgeOutcomes == {FetchOk(<<>>), FetchOk(<<NetAll>>), FetchOk(<<Host10>>)}
EdgeChunks == {RequestFrame(<<3, 2, 1, 10>>), RequestFrame(<<2, 2, 1, 10>>),
               RequestFrame(<<3, 2, 1, 138>>)}

NextEdge ==
    \/ Up
    \/ HandleCacheTick
    \/ \E o \in EdgeOutcomes : TemperSource(o)
    \/ (InOrder(Addr1) /\ Accept(Addr1))
    \/ HandlePeerFrame
    \/ PeerWrite(1)
    \/ \E b \in EdgeChunks : Room /\ MayRead(1, MaxReads) /\ PeerRead(1, b)
    \/ (Room /\ MayTemper /\ CacheTimer)
    \/ (Before(MaxTime) /\ Tick)

SpecEdge == InitCache /\ [][NextEdge]_vars

\* SpecSkip: a source with an update returns 10.0.0.0/8; a source whose
\* has_update() is false would return 10.1.0.0/16 if its iterate_cidr were called.
SkipOutcomes == {[ok |-> TRUE, cidrs |-> <<Net10>>, has_update |-> TRUE],
                 [ok |-> TRUE, cidrs |-> <<Net10_1>>, has_update |-> FALSE]}

NextSkip ==
    \/ Up
    \/ HandleCacheTick
    \/ \E o \in SkipOutcomes : TemperSource(o)
    \/ (InOrder(Addr1) /\ Accept(Addr1))
    \/ HandlePeerFrame
    \/ PeerWrite(1)
    \/ \E b \in RefreshChunks : Room /\ MayRead(1, MaxReads) /\ PeerRead(1, b)
    \/ (Room /\ MayTemper /\ CacheTimer)
    \/ (Before(MaxTime) /\ Tick)

SpecSkip == InitCache /\ [][NextSkip]_vars

\* SpecAtomic: one client that sends its Requests while the temper of the first
\* CacheTick is in progress; a further CacheTick may arrive meanwhile.
AtomicOutcomes == {FetchOk(<<Net10>>), FetchOk(<<Net10_1>>)}
AtomicChunks == {RequestFrame(<<3, 2, 1, 10>>)}
\* the temper of the first CacheTick waits for a source
FirstRefresh == dstate = "tempering" /\ ntempers = 2

NextAtomic ==
    \/ Up
    \/ HandleCacheTick
    \/ \E o \in AtomicOutcomes : TemperSource(o)
    \/ (InOrder(Addr1) /\ Accept(Addr1))
    \/ HandlePeerFrame
    \/ PeerWrite(1)
    \/ \E b \in AtomicChunks :
         FirstRefresh /\ Len(rx) <= MaxQueue /\ MayRead(1, MaxReads + 1) /\ PeerRead(1, b)
    \/ (Len(rx) <= MaxQueue /\ ntempers + QueuedTicks("CacheTick") <= MaxTempers /\ CacheTimer)
    \/ (Before(MaxTime) /\ Tick)

SpecAtomic == InitCache /\ [][NextAtomic]_vars

\* SpecExit: the ways a peer task ends; one client address, connecting again
\* when its connection's task has ended; the server may be interrupted.
ExitChunks == {RequestFrame(<<3, 2, 1, 10>>), <<100, 1>>}
\* the first connection of the client and its second
ExitConns == {1, 2}

NextExit ==
    \/ Up
    \/ \E o \in Outcomes : TemperSource(o)
    \/ (FreeConn \in ExitConns /\ Accept(Addr1))
    \/ HandlePeerDisconnected
    \/ HandlePeerFrame
    \/ \E c \in ExitConns : PeerShutdown(c)
    \/ \E c \in ExitConns : PeerWrite(c)
    \/ \E c \in ExitConns : PeerWriteFail(c)
    \/ \E c \in ExitConns, b \in ExitChunks : Room /\ MayRead(c, MaxReads) /\ PeerRead(c, b)
    \/ \E c \in ExitConns : PeerReadEnd(c)
    \/ \E c \in ExitConns : PeerDisconnect(c)
    \/ Interrupt

SpecExit == Init /\ [][NextExit]_vars

\* SpecExitFair: SpecExit with the scheduling of the runtime.  select! polls its
\* ready branches in random order, so a shutdown branch that stays ready is taken
\* in the end, and a task that has left its loop runs to its end.
SpecExitFair ==
    /\ SpecExit
    /\ \A c \in ExitConns : WF_vars(PeerShutdown(c)) /\ WF_vars(PeerDisconnect(c))

\* SpecGone: a client whose frames are malformed, so that each of them is
\* answered with peer_error and the shutdown signal; it connects again from the
\* same address when its connection's task has ended.  The tasks and the
\* dispatcher are scheduled fairly: a branch of select! that stays ready is
\* taken in the end (the branches are polled in random order), be it the
\* shutdown branch of a task or rx.recv() of the dispatcher.
GoneChunks == {<<100, 1>>}

NextGone ==
    \/ Up
    \/ \E o \in Outcomes : TemperSource(o)
    \/ (FreeConn \in ExitConns /\ Accept(Addr1))
    \/ HandlePeerDisconnected
    \/ HandlePeerFrame
    \/ \E c \in ExitConns : PeerShutdown(c)
    \/ \E c \in ExitConns : PeerWrite(c)
    \/ \E c \in ExitConns, b \in GoneChunks : Room /\ MayRead(c, MaxReads) /\ PeerRead(c, b)
    \/ \E c \in ExitConns : PeerReadEnd(c)
    \/ \E c \in ExitConns : PeerDisconnect(c)
    \/ Interrupt

SpecGone ==
    /\ Init /\ [][NextGone]_vars
    /\ \A c \in ExitConns : WF_vars(PeerShutdown(c)) /\ WF_vars(PeerDisconnect(c))
    /\ WF_vars(HandlePeerDisconnected)
    /\ WF_vars(HandlePeerFrame)

\* SpecShare: two connections from one source IP, at the same time from two
\* ports or one after the other from the same port, sending Requests and
\* malformed frames.
ShareAddrs == {<<ClientIp, 1>>, <<ClientIp, 2>>}
ShareChunks == {RequestFrame(<<3, 2, 1, 10>>), <<100, 1>>}

NextShare ==
    \/ Up
    \/ \E o \in Outcomes : TemperSource(o)
    \/ \E a \in ShareAddrs : FreeConn \in ExitConns /\ Accept(a)
    \/ HandlePeerDisconnected
    \/ HandlePeerFrame
    \/ \E c \in ExitConns : PeerShutdown(c)
    \/ \E c \in ExitConns : PeerWrite(c)
    \/ \E c \in ExitConns, b \in ShareChunks : Room /\ MayRead(c, MaxReads) /\ PeerRead(c, b)
    \/ \E c \in ExitConns : PeerReadEnd(c)
    \/ \E c \in ExitConns : PeerDisconnect(c)

SpecShare == Init /\ [][NextShare]_vars

\* SpecIdle: one client that sends Identify and Request frames while time
\* passes and the peer timer ticks.
IdleChunks == {<<PROTOCOL_VERSION, VIdentify, 102, 0>>, RequestFrame(<<3, 2, 1, 10>>)}

NextIdle ==
    \/ Up
    \/ \E o \in Outcomes : TemperSource(o)
    \/ (InOrder(Addr1) /\ Accept(Addr1))
    \/ HandlePeerDisconnected
    \/ HandlePeerTick
    \/ HandlePeerFrame
    \/ PeerShutdown(1)
    \/ PeerWrite(1)
    \/ \E b \in IdleChunks : Room /\ MayRead(1, MaxReads + 1) /\ PeerRead(1, b)
    \/ PeerDisconnect(1)
    \/ (Room /\ PeerTimer)
    \/ (Before(MaxTime) /\ Tick)

SpecIdle == Init /\ [][NextIdle]_vars

\* SpecWire: one client and the frames the codec accepts and rejects.
WireChunks == {<<100, 1>>, <<1, 100>>, <<1, VIdentify, 102, 0>>, <<1, VRequest, 10>>,
               <<1, VResponseOkFound>>, RequestFrame(<<3, 2, 1, 10>>),
               RequestFrame(<<10, 1, 2, 3>>),
               RequestFrame(<<3, 2, 1, 10>>) \o RequestFrame(<<10, 1, 2, 3>>)}

NextWire ==
    \/ Up
    \/ \E o \in Outcomes : TemperSource(o)
    \/ (InOrder(Addr1) /\ Accept(Addr1))
    \/ HandlePeerDisconnected
    \/ HandlePeerFrame
    \/ PeerShutdown(1)
    \/ PeerWrite(1)
    \/ \E b \in WireChunks : Room /\ MayRead(1, MaxReads + 1) /\ PeerRead(1, b)
    \/ PeerWriteFail(1)
    \/ PeerReadEnd(1)
    \/ PeerDisconnect(1)

SpecWire == Init /\ [][NextWire]_vars

\* SpecRate: the Requests of two connections of one source ip against the
\* limiter; peer_ttl lies beyond the horizon of the clock.
RateChunks == {RequestFrame(<<3, 2, 1, 10>>)}
RateAddrs == {<<ClientIp, 1>>, <<ClientIp, 2>>}

NextRate ==
    \/ Up
    \/ \E o \in Outcomes : TemperSource(o)
    \/ \E a \in RateAddrs : InOrder(a) /\ Accept(a)
    \/ HandlePeerDisconnected
    \/ HandlePeerFrame
    \/ \E c \in ConnIds : PeerShutdown(c)
    \/ \E c \in ConnIds : PeerDisconnect(c)
    \/ \E c \in ConnIds : PeerWrite(c)
    \/ \E c \in ConnIds, b \in RateChunks : Room /\ MayRead(c, MaxReads + 1) /\ PeerRead(c, b)
    \/ (Before(MaxTime) /\ Tick)

InitRate == InitWith([rate_limit |-> 2, peer_ttl |-> 9, cache_ttl |-> 9]) /\ NoCall

SpecRate == InitRate /\ [][NextRate]_vars

\* SpecOrder: the frames of SpecWire under a limiter that lets two Requests pass.
SpecOrder == InitRate /\ [][NextWire]_vars

\* SpecCodec: the functions of the codec, each called once on one input.
MaxMeta == 2
MaxCut == 2

Variants == {VEstablished, VIdentify, VRequest, VResponseOkFound, VResponseOkNotFound,
             VResponseError}
\* bytes that follow a header in a frame
Tails == {<<>>, <<0>>, <<PROTOCOL_VERSION, VRequest>>}
Strs == {<<>>, <<97>>, <<98>>}
Pairs == Strs \X Strs
Addrs == {<<10, 1, 2, 3>>, ClientIp}

\* the messages the server constructs
Messages ==
    {[variant |-> VEstablished, rate_limit |-> U32(r), tree_size |-> U32(n),
      cache_ttl |-> U32(1), peer_ttl |-> U32(2), banner |-> b] :
        r \in 1..2, n \in 0..2, b \in {<<>>, Banner}}
    \cup {[variant |-> VResponseOkFound, ip_address |-> a, prefix |-> p.addr,
           mask_len |-> U32(p.len)] : a \in Addrs, p \in {Net10, Host10, NetAll}}
    \cup {[variant |-> VResponseOkNotFound, ip_address |-> a] : a \in Addrs}
    \cup {[variant |-> VResponseError, code |-> ErrorCode(e), message |-> ErrorToString(e)] :
           e \in {"MalformedPayload", "Ratelimited"}}

\* the bytes of key, 0x00, value, 0x00 for each pair in turn
RECURSIVE PairBytes(_)
PairBytes(pairs) ==
    IF pairs = <<>> THEN <<>>
    ELSE Head(pairs)[1] \o <<0>> \o Head(pairs)[2] \o <<0>> \o PairBytes(Tail(pairs))

\* a Request body: the ip least significant octet first, meta_count, the pairs,
\* with the last cut bytes missing
RequestBody(b) ==
    LET whole == put_u32_le(b.ip) \o <<b.meta_count>> \o PairBytes(b.pairs)
    IN  SubSeq(whole, 1, Len(whole) - b.cut)

\* Request bodies announcing n pairs and holding n or fewer, whole or cut short
\* within the pairs
Bodies ==
    {b \in [ip : Addrs, meta_count : 0..MaxMeta,
             pairs : UNION {[1..k -> Pairs] : k \in 0..MaxMeta}, cut : 0..MaxCut] :
        /\ Len(b.pairs) <= b.meta_count
        /\ b.cut <= Len(PairBytes(b.pairs))}

Calls ==
    {[fn |-> "Header", arg |-> [variant |-> v, tail |-> t]] : v \in Variants, t \in Tails}
    \cup {[fn |-> "Message", arg |-> m] : m \in Messages}
    \cup {[fn |-> "Request", arg |-> b] : b \in Bodies}

\* connections whose tasks run, with nothing queued
Open == [c \in ConnIds |-> [Unused EXCEPT !.task = "running"]]

\* Header::parse on the bytes of Header::new(variant).to_bytes() and what follows
CallHeader ==
    /\ call # None /\ call[1].fn = "Header" /\ returned = None
    /\ returned' = Some(Header_parse(Header_to_bytes(call[1].arg.variant) \o call[1].arg.tail))
    /\ UNCHANGED <<call, config, dstate, temper, tree, peers, rx, limiter, now, timers, conns,
                   ntempers, loaded, treeBefore, allowedAt>>

\* to_bytes of a message, then the parsers on its bytes
CallMessage ==
    /\ call # None /\ call[1].fn = "Message" /\ returned = None
    /\ returned' = Some([bytes |-> Encode(call[1].arg),
                         header |-> Header_parse(Encode(call[1].arg)),
                         decoded |-> Decode(Encode(call[1].arg))])
    /\ UNCHANGED <<call, config, dstate, temper, tree, peers, rx, limiter, now, timers, conns,
                   ntempers, loaded, treeBefore, allowedAt>>

\* Request::parse on a body, process_frame on the frame with that body, and
\* peer_error on the Err of process_frame
CallRequest ==
    /\ call # None /\ call[1].fn = "Request" /\ returned = None
    /\ LET body == RequestBody(call[1].arg)
           res == process_frame(Addr1, Header_to_bytes(VRequest) \o body)
       IN  returned' = Some([parsed |-> Request_parse(body),
                             err |-> res.err,
                             peer |-> IF res.err # "" THEN peer_error(Open, 1, res.err)[1]
                                      ELSE Open[1]])
    /\ UNCHANGED <<call, config, dstate, temper, tree, peers, rx, limiter, now, timers, conns,
                   ntempers, loaded, treeBefore, allowedAt>>

NextCodec ==
    \/ CallHeader
    \/ CallMessage
    \/ CallRequest

InitCodec ==
    /\ InitWith([rate_limit |-> 2, peer_ttl |-> 1, cache_ttl |-> 1])
    /\ call \in {Some(k) : k \in Calls}
    /\ returned = None

SpecCodec == InitCodec /\ [][NextCodec]_vars

\* SpecQuiet: one client that sends frames of the variants the dispatcher has
\* nothing to do for, with various bytes after the header, and Requests.
QuietVariants == Variants \ {VRequest}
QuietChunks == {Header_to_bytes(v) \o t : v \in QuietVariants, t \in Tails}
               \cup {RequestFrame(<<3, 2, 1, 10>>)}

NextQuiet ==
    \/ Up
    \/ \E o \in Outcomes : TemperSource(o)
    \/ (InOrder(Addr1) /\ Accept(Addr1))
    \/ HandlePeerDisconnected
    \/ HandlePeerFrame
    \/ PeerShutdown(1)
    \/ PeerWrite(1)
    \/ \E b \in QuietChunks : Room /\ MayRead(1, MaxReads + 1) /\ PeerRead(1, b)
    \/ PeerReadEnd(1)
    \/ PeerDisconnect(1)

SpecQuiet == Init /\ [][NextQuiet]_vars

(***************************************************************************)
(* Properties                                                              *)
(***************************************************************************)
\* the dispatcher takes a PeerFrame off its queue in this step
FrameStep ==
    /\ dstate = "running"
    /\ rx # <<>>
    /\ Head(rx).kind = "PeerFrame"
    /\ rx' = Tail(rx)

\* what process_frame decides on the frame at the head of the queue
Decision == process_frame(Head(rx).addr, Head(rx).buf)

\* the connection the registry holds for the sender of that frame
Target == peers[Head(rx).addr][1].conn

\* the frame is a Request that passes the rate check
AnswerStep == FrameStep /\ Decision.allowed

\* the frame is a Request of a registered peer that the rate check denies
DenyStep == FrameStep /\ Decision.err = "Ratelimited"

\* exactly this frame is enqueued for connection c in this step
Enqueued(c, frame) == conns'[c].outq = Append(conns[c].outq, frame)

\* the prefix of greatest length among those of S that cover a, if any
Best(S, a) ==
    LET cov == {p \in S : Covers(p, a)}
    IN  IF cov = {} THEN None
        ELSE Some(CHOOSE p \in cov : \A q \in cov : q.len <= p.len)

\* the answer to a Request for address a against the filter set S
Answer(S, a) ==
    LET m == Best(S, a)
    IN  IF m = None THEN ResponseOkNotFound_to_bytes([ip_address |-> a])
        ELSE ResponseOkFound_to_bytes([ip_address |-> a, prefix |-> m[1].addr,
                                       mask_len |-> U32(m[1].len)])

\* C1: a Request for address a that passes the rate check is answered with the
\* longest prefix covering a among the prefixes S that the last completed temper
\* loaded from the sources, and with ResponseOkNotFound exactly when no prefix
\* of S covers a.
C1_AnswerIsLongestMatchOfLoaded ==
    [][AnswerStep /\ conns[Target].task # "exited"
         => Enqueued(Target, Answer(loaded, Decision.looked[1]))]_vars

\* the lookup address and the reply as the wire octets w of a Request would be
\* treated with the octets taken in the order given by addr_of and wire_of
Reply(S, w, addr_of(_), wire_of(_)) ==
    LET m == Best(S, addr_of(w))
    IN  IF m = None THEN <<PROTOCOL_VERSION, VResponseOkNotFound>> \o w
        ELSE <<PROTOCOL_VERSION, VResponseOkFound>> \o w \o wire_of(m[1].addr)
             \o <<m[1].len, 0, 0, 0>>

SameOrder(o) == o
Reversed(o) == <<o[4], o[3], o[2], o[1]>>

\* the prefixes the sources may return, and those of them a tree holds
Candidates == {Net10, Net10_1, Host10, NetAll}
HeldCidrs(root) == {p \in Candidates : AsEntry(p) \in TreeSet(root)}

\* the four ip octets of the Request at the head of the queue, in wire order
WireIp == SubSeq(Head(rx).buf, 3, 6)

\* C2 (as stated): the wire octets a, b, c, d of a Request are looked up as
\* a.b.c.d, and the prefix of ResponseOkFound is written in the order a, b, c, d;
\* with the cache holding 10.0.0.0/8 the Request 01 02 0a 01 02 03 00 is
\* answered 01 03 0a 01 02 03 0a 00 00 00 08 00 00 00.
C2_OctetsInOrder ==
    [][AnswerStep /\ conns[Target].task # "exited"
         => Enqueued(Target, Reply(HeldCidrs(tree), WireIp, SameOrder, SameOrder))]_vars

\* C2 (amended): the wire octets a, b, c, d of a Request are looked up as
\* d.c.b.a; the ip of the reply repeats the octets as received and the prefix
\* is written least significant octet first; with the cache holding 10.0.0.0/8
\* the Request 01 02 03 02 01 0a 00 is answered
\* 01 03 03 02 01 0a 00 00 00 0a 08 00 00 00.
C2_OctetsReversed ==
    [][AnswerStep /\ conns[Target].task # "exited"
         => Enqueued(Target, Reply(HeldCidrs(tree), WireIp, Reversed, Reversed))]_vars

\* C2 witness: with 10.0.0.0/8 alone in the cache the reply to 01 02 03 02 01 0a 00
\* has been written to the socket
C2_FoundWritten ==
    /\ HeldCidrs(tree) = {Net10}
    /\ \E i \in DOMAIN conns[1].wire :
         conns[1].wire[i] = <<1, 3, 3, 2, 1, 10, 0, 0, 0, 10, 8, 0, 0, 0>>

\* C3: a frame whose header fails to parse is answered with a ResponseError of
\* code 2 and the version mismatch message when its first byte is not
\* PROTOCOL_VERSION, and of code 3 when its second byte is no variant.
C3_HeaderErrorCodes ==
    [][(/\ FrameStep
        /\ Len(Head(rx).buf) >= 2
        /\ ~Header_parse(Head(rx).buf).ok
        /\ peers[Head(rx).addr] # None
        /\ conns[Target].task # "exited")
         => LET buf == Head(rx).buf
                q == conns'[Target].outq
            IN  /\ Len(q) = Len(conns[Target].outq) + 1
                /\ IF buf[1] # PROTOCOL_VERSION
                   THEN q[Len(q)] = <<PROTOCOL_VERSION, VResponseError, 2>>
                                    \o MsgVersionMismatch(PROTOCOL_VERSION, buf[1]) \o <<0>>
                   ELSE SubSeq(q[Len(q)], 1, 3) = <<PROTOCOL_VERSION, VResponseError, 3>>]_vars

\* the addresses looked up
Probes == {<<10, 1, 2, 3>>, <<10, 2, 3, 4>>, <<9, 9, 1, 10>>}

\* C4: after a completed temper no lookup returns a prefix that no Fetcher
\* produced during that temper.
C4_NoStalePrefix ==
    dstate = "running" =>
        \A a \in Probes :
            LET m == longest_match(tree, a)
            IN  m # None => [addr |-> m[1].prefix, len |-> m[1].len] \in loaded

\* C5: after a temper that a failing Fetcher aborted the tree holds exactly the
\* prefixes it held when the temper started.
C5_AbortLeavesTree ==
    (dstate = "failed" /\ temper.idx > 0) => TreeSet(tree) = TreeSet(treeBefore)

\* C6: a temper that fails while handling a CacheTick does not end the
\* dispatcher loop.
C6_CacheTickFailureSurvived ==
    ~(dstate = "failed" /\ temper.idx > 0 /\ ~temper.boot)

\* the dispatcher takes a PeerTick off its queue in this step
PeerTickStep ==
    /\ dstate = "running"
    /\ rx # <<>>
    /\ Head(rx).kind = "PeerTick"
    /\ rx' = Tail(rx)

\* the registry entry of addr is past peer_ttl
Idle(a) == peers[a] # None /\ now - peers[a][1].last_request > config.peer_ttl

\* C7: a PeerTick processed while the registry holds an idle peer whose task has
\* exited neither ends the dispatcher loop nor skips the shutdown signal of the
\* other idle peers.
C7_SweepSurvivesExitedPeer ==
    [][PeerTickStep
         => /\ dstate' = "running"
            /\ \A a \in SockAddrs :
                 (Idle(a) /\ conns[peers[a][1].conn].task # "exited")
                     => conns'[peers[a][1].conn].changed]_vars

\* the Requests of ip that passed the check at an instant of s..e
AllowedIn(ip, s, e) ==
    Cardinality({i \in DOMAIN allowedAt[ip] : s <= allowedAt[ip][i] /\ allowedAt[ip][i] <= e})

RatelimitedFrame == <<PROTOCOL_VERSION, VResponseError, 1>> \o MsgRatelimited \o <<0>>

\* what a denied Request leaves alone: the registry, the limiter's history and
\* the other connections; no address is looked up
DenyFrame ==
    /\ Decision.looked = None
    /\ peers' = peers
    /\ allowedAt' = allowedAt
    /\ \A c \in ConnIds \ {Target} : conns'[c] = conns[c]

\* C9 (as stated): a denied Request of a registered peer enqueues for that peer
\* exactly one ResponseError of code 1 "Exceeded ratelimit" and fires its
\* shutdown signal; nothing is looked up and last_request is unchanged.
C9_DeniedAlwaysAnswered ==
    [][DenyStep
         => /\ Enqueued(Target, RatelimitedFrame)
            /\ conns'[Target].changed
            /\ DenyFrame]_vars

\* C9 (amended): a denied Request of a registered peer whose task is running
\* enqueues for that peer exactly one ResponseError of code 1 "Exceeded
\* ratelimit" and fires its shutdown signal; if the task has exited both sends
\* fail and nothing is enqueued; in both cases nothing is looked up, no
\* ResponseOk is enqueued and last_request is unchanged.
C9_DeniedAnsweredIfRunning ==
    [][DenyStep
         => /\ IF conns[Target].task # "exited"
               THEN /\ Enqueued(Target, RatelimitedFrame)
                    /\ conns'[Target].changed
                    /\ conns'[Target] = [conns[Target] EXCEPT
                                            !.outq = Append(@, RatelimitedFrame),
                                            !.changed = TRUE]
               ELSE conns'[Target] = conns[Target]
            /\ DenyFrame]_vars

\* C9 witness: a denial was answered and the frame written, and the peer's
\* shutdown signal fired
C9_DenialWritten ==
    \E c \in ConnIds :
        /\ conns[c].changed
        /\ \E i \in DOMAIN conns[c].wire : conns[c].wire[i] = RatelimitedFrame

\* C10: the peer task never exits on the shutdown signal while a ResponseError
\* is still unwritten in its outbound queue.
C10_ErrorWrittenBeforeClose ==
    \A c \in ConnIds :
        conns[c].exit = "shutdown" =>
            \A i \in DOMAIN conns[c].outq : conns[c].outq[i][2] # VResponseError

\* the ResponseError frames among the frames written to the socket of c
ErrorsWritten(c) ==
    {i \in DOMAIN conns[c].wire : conns[c].wire[i][2] = VResponseError}

\* C11: over the lifetime of one connection at most one ResponseError frame is
\* written to the socket, whatever frames the client sends.
C11_AtMostOneErrorWritten ==
    \A c \in ConnIds : Cardinality(ErrorsWritten(c)) <= 1

\* the Established frame of a connection accepted with n prefixes in the tree
EstablishedFrame(n) ==
    <<PROTOCOL_VERSION, VEstablished>>
    \o <<config.rate_limit, 0, 0, 0>> \o <<n, 0, 0, 0>>
    \o <<config.cache_ttl, 0, 0, 0>> \o <<config.peer_ttl, 0, 0, 0>>
    \o Banner \o <<0>>

\* C12: the first frame written to the socket of an accepted connection is the
\* Established frame, with the tree size of the time of the accept and the
\* configured rate_limit, cache_ttl, peer_ttl and banner.
C12_EstablishedFirst ==
    \A c \in ConnIds :
        conns[c].wire # <<>> => conns[c].wire[1] = EstablishedFrame(conns[c].tree_size)

\* C12 witness: Established and a reply have been written on a connection, and
\* the tree has grown since the accept
C12_EstablishedThenReply ==
    \E c \in ConnIds :
        /\ Len(conns[c].wire) >= 2
        /\ Cardinality(TreeSet(tree)) > conns[c].tree_size

\* the PeerFrame messages of connection c waiting in the dispatcher's queue
Pending(q, c) ==
    LET OfConn(m) == m.kind = "PeerFrame" /\ m.addr = conns[c].addr
    IN  SelectSeq(q, OfConn)

\* the ResponseOkFound and ResponseOkNotFound frames written to the socket of c
RepliesWritten(c) ==
    LET IsReply(f) == f[2] \in {VResponseOkFound, VResponseOkNotFound}
    IN  SelectSeq(conns[c].wire, IsReply)

\* C13: within one peer the frames are written in the order the dispatcher
\* enqueued them and the inbound frames are dispatched in the order they
\* arrived: a frame read goes behind the pending frames of the connection, the
\* dispatcher takes the oldest of them, and the k-th response written answers
\* the k-th Request of the connection that passed the rate check.
C13_FifoPerPeer ==
    [][\A c \in ConnIds :
         conns[c].task # "unused" =>
           /\ LET old == Pending(rx, c)
                  new == Pending(rx', c)
              IN  \/ new = old
                  \/ Len(new) = Len(old) + 1 /\ SubSeq(new, 1, Len(old)) = old
                  \/ FrameStep /\ old # <<>> /\ Head(rx) = Head(old) /\ new = Tail(old)
           /\ LET w == RepliesWritten(c)'
                  a == conns'[c].asked
              IN  /\ Len(w) <= Len(a)
                  /\ \A k \in 1..Len(w) : w[k] = Answer(HeldCidrs(tree'), a[k])]_vars

\* C13 witness: two Requests with different answers passed the rate check on a
\* connection and both responses have been written
C13_TwoRepliesWritten ==
    \E c \in ConnIds :
        /\ Len(RepliesWritten(c)) = 2
        /\ RepliesWritten(c)[1] # RepliesWritten(c)[2]

RECURSIVE Requests(_)
\* the addresses of the complete Request frames at the start of a chunk
Requests(buf) ==
    LET h == Header_parse(buf)
    IN  IF ~h.ok \/ h.header.variant # VRequest THEN <<>>
        ELSE LET r == Request_parse(h.rest)
             IN  IF ~r.ok THEN <<>>
                 ELSE <<r.request.ip_address>> \o Requests(r.rest)

RECURSIVE AfterRequests(_)
\* what is left of a chunk behind its complete Request frames
AfterRequests(buf) ==
    LET h == Header_parse(buf)
    IN  IF ~h.ok \/ h.header.variant # VRequest THEN buf
        ELSE LET r == Request_parse(h.rest)
             IN  IF ~r.ok THEN buf ELSE AfterRequests(r.rest)

\* the bytes are the beginning of a Request frame whose end has not arrived
PartOfRequest(buf) ==
    /\ buf # <<>>
    /\ \/ buf = <<PROTOCOL_VERSION>>
       \/ /\ Header_parse(buf).ok
          /\ Header_parse(buf).header.variant = VRequest
          /\ ~Request_parse(Header_parse(buf).rest).ok

\* C14: the dispatch does not depend on how the byte stream is split into
\* chunks: every complete Request frame of a chunk is dispatched (here: as many
\* Requests as the limiter of a source ip not seen before lets pass), and a
\* chunk that ends with the beginning of a frame is not rejected.
C14_ChunkingIrrelevant ==
    [][(/\ FrameStep
        /\ peers[Head(rx).addr] # None
        /\ limiter[AddrIp(Head(rx).addr)] = None
        /\ Len(Requests(Head(rx).buf)) <= config.rate_limit)
         => LET buf == Head(rx).buf
            IN  /\ conns'[Target].asked = conns[Target].asked \o Requests(buf)
                /\ PartOfRequest(AfterRequests(buf))
                     => conns'[Target].changed = conns[Target].changed]_vars

\* C15: a PeerTick fires the shutdown signal of every connected peer whose last
\* allowed Request (or accept) is more than peer_ttl old, and of no peer whose
\* last allowed Request is at most peer_ttl old.
C15_IdlePeersSignalled ==
    [][PeerTickStep
         => \A a \in SockAddrs :
              peers[a] # None =>
                LET c == peers[a][1].conn
                IN  /\ (Idle(a) /\ conns[c].task = "running") => conns'[c].changed
                    /\ ~Idle(a) => conns'[c].changed = conns[c].changed]_vars

\* C16: while a temper waits for a Fetcher the Requests of connected peers are
\* still answered: the dispatcher can handle the PeerFrame at the head of its
\* queue.
C16_AnsweredWhileTempering ==
    (dstate = "tempering" /\ rx # <<>> /\ Head(rx).kind = "PeerFrame")
        => ENABLED HandlePeerFrame

\* the replies to the Requests of connection c, written or still queued
Replies(c) ==
    LET IsReply(f) == f[2] \in {VResponseOkFound, VResponseOkNotFound}
    IN  SelectSeq(conns[c].wire \o conns[c].outq, IsReply)

\* the tree is the tree the last temper started from with all that its sources
\* returned, and no temper is in progress
TemperFinished ==
    /\ temper.idx = 0
    /\ TreeSet(tree) = TreeSet(treeBefore) \cup {AsEntry(p) : p \in loaded}

\* a lookup is made when no temper is in progress, against the tree the last
\* temper left, which the lookup leaves as it is
LookupSeesFinishedTemper ==
    AnswerStep => /\ TemperFinished
                  /\ Enqueued(Target, Answer(HeldCidrs(tree), Decision.looked[1]))
                  /\ tree' = tree

Returned(fn) == call # None /\ call[1].fn = fn /\ returned # None

\* Header::parse(Header::new(v).to_bytes()) is the header with version 1 and
\* variant v, and leaves what follows the two bytes
HeaderRoundTrip ==
    Returned("Header") =>
        returned[1] = [ok |-> TRUE, rest |-> call[1].arg.tail,
                       header |-> [protocol_version |-> PROTOCOL_VERSION,
                                   variant |-> call[1].arg.variant]]

\* C18 (as stated): decoding the bytes produced by encoding a message of any
\* variant yields the message again, and Header::parse(Header::new(v).to_bytes())
\* returns the header with version 1 and variant v and consumes exactly two bytes.
C18_DecodeOfEncode ==
    /\ HeaderRoundTrip
    /\ Returned("Message") => returned[1].decoded = Some(call[1].arg)

\* C18 (amended): Header::parse(Header::new(v).to_bytes()) returns the header
\* with version 1 and variant v and consumes exactly two bytes, for each variant
\* 0 to 5; the bytes of every message the server encodes (variants 0, 3, 4, 5)
\* start with its header, which parses back to its variant and leaves the body;
\* the code has no parser for the body of these variants and no encoder for
\* Identify and Request, so no message body is decoded from its encoding.
C18_HeaderOfEncode ==
    /\ HeaderRoundTrip
    /\ Returned("Message") =>
        /\ returned[1].header.ok
        /\ returned[1].header.header =
               [protocol_version |-> PROTOCOL_VERSION, variant |-> call[1].arg.variant]
        /\ Header_to_bytes(call[1].arg.variant) \o returned[1].header.rest = returned[1].bytes
        /\ returned[1].decoded = None

\* the header of a ResponseError was parsed back with bytes following it
C18_HeaderParsedBack ==
    /\ Returned("Header")
    /\ call[1].arg.variant = VResponseError
    /\ call[1].arg.tail # <<>>
    /\ returned[1].ok

\* the body holds all the pairs it announces, each string with its 0x00
WellFormed(b) == Len(b.pairs) = b.meta_count /\ b.cut = 0

\* meta maps the key of every pair to the value of the last pair with that key
MappingOf(meta, pairs) ==
    /\ DOMAIN meta = {pairs[i][1] : i \in DOMAIN pairs}
    /\ \A i \in DOMAIN pairs :
         (\A j \in DOMAIN pairs : pairs[j][1] = pairs[i][1] => j <= i)
            => meta[pairs[i][1]] = pairs[i][2]

\* C19: Request parsing accepts a body of a 4-byte ip, a meta_count n and n
\* pairs of NUL-terminated key and value strings and returns that ip, n and the
\* key-to-value mapping of the pairs; a body with fewer than n complete pairs,
\* or whose last string lacks its 0x00, is rejected as Malformed payload: a
\* peer whose task runs is enqueued ResponseError with code 0 and is signalled
\* to shut down.
C19_RequestParsedOrMalformed ==
    Returned("Request") =>
        LET b == call[1].arg
            r == returned[1]
        IN  IF WellFormed(b)
            THEN /\ r.parsed.ok
                 /\ r.parsed.rest = <<>>
                 /\ r.parsed.request.ip_address = b.ip
                 /\ r.parsed.request.meta_count = b.meta_count
                 /\ MappingOf(r.parsed.request.meta, b.pairs)
                 /\ r.err = ""
                 /\ r.peer = Open[1]
            ELSE /\ ~r.parsed.ok
                 /\ r.err = "MalformedPayload"
                 /\ r.peer.outq = <<(<<PROTOCOL_VERSION, VResponseError, 0>>
                                      \o MsgMalformedPayload \o <<0>>)>>
                 /\ r.peer.changed

\* a body of MaxMeta pairs with different keys was parsed, it is not the case
\* that only rejected bodies were tried
C19_PairsParsed ==
    /\ Returned("Request")
    /\ WellFormed(call[1].arg)
    /\ call[1].arg.meta_count = MaxMeta
    /\ call[1].arg.pairs[1][1] # call[1].arg.pairs[MaxMeta][1]
    /\ returned[1].parsed.ok

\* the Request handled in this step is answered with ResponseOkFound
AnsweredFound ==
    \E f \in {Decision.reply[1]} : f[2] = VResponseOkFound /\ Enqueued(Target, f)

\* the Request handled in this step is answered with ResponseOkNotFound
AnsweredNotFound ==
    Enqueued(Target, ResponseOkNotFound_to_bytes([ip_address |-> Decision.looked[1]]))

\* C20: with 0.0.0.0/0 in the filter set, the prefixes the last completed
\* temper loaded, every address matches; with the filter set {10.1.2.3/32}
\* exactly the address 10.1.2.3 matches; with an empty filter set every Request
\* that passes the rate check is answered with ResponseOkNotFound.
C20_EdgePrefixes ==
    [][AnswerStep /\ conns[Target].task # "exited" =>
        /\ NetAll \in loaded =>
               AnsweredFound /\ contains_addr(tree, Decision.looked[1])
        /\ loaded = {Host10} =>
               /\ AnsweredFound <=> Decision.looked[1] = Host10.addr
               /\ contains_addr(tree, Decision.looked[1]) <=> Decision.looked[1] = Host10.addr
        /\ loaded = {} =>
               AnsweredNotFound /\ ~contains_addr(tree, Decision.looked[1])]_vars

\* a connection is accepted in this step
AcceptStep == \E c \in ConnIds : conns[c].task = "unused" /\ conns'[c].task # "unused"

\* the dispatcher takes a PeerFrame off its queue in this step, in any state
TakesFrame == rx # <<>> /\ Head(rx).kind = "PeerFrame" /\ rx' = Tail(rx)

\* the first temper has run through all its sources
FirstTemperCompleted == ntempers >= 1 /\ ~temper.boot

\* C21: no connection is accepted and no PeerFrame is processed before the
\* first temper has completed, and once the first temper has failed no
\* connection is ever accepted.
C21_FirstTemperBeforeAccept ==
    [][/\ AcceptStep \/ TakesFrame => FirstTemperCompleted
       /\ dstate = "failed" /\ temper.boot =>
              /\ dstate' = "failed"
              /\ \A c \in ConnIds : conns'[c].task = "unused"]_vars

\* a connection was accepted after the first temper, the only one so far
C21_AcceptedAfterFirstTemper ==
    /\ ntempers = 1
    /\ \E c \in ConnIds : conns[c].task = "running" /\ conns[c].reads > 0

\* the prefixes that only sources without an update hold
StalePrefixes ==
    UNION {{o.cidrs[i] : i \in DOMAIN o.cidrs} : o \in {x \in SkipOutcomes : ~x.has_update}}

\* C22: a source whose has_update() returns false is skipped during a temper:
\* its iterate_cidr is not called, so none of its prefixes is inserted and no
\* lookup is answered with one of them; the sources are taken in registration
\* order, one index after the other.
C22_SourceWithoutUpdateSkipped ==
    [][/\ \A p \in StalePrefixes : AsEntry(p) \notin TreeSet(tree')
       /\ temper'.idx # temper.idx => temper'.idx \in {temper.idx + 1, 0, 1}]_vars

\* the task of connection c ends in this step: its future returns and the peer,
\* with its socket and receivers, is dropped
ExitStep(c) == conns[c].task # "exited" /\ conns'[c].task = "exited"

\* exactly the message m is added to the dispatcher's queue in this step
Sent(m) == rx' = Append(rx, m)

\* some message of the given kind is added to the dispatcher's queue in this step
SentKind(kind) ==
    /\ rx' # <<>>
    /\ rx'[Len(rx')].kind = kind
    /\ Sent(rx'[Len(rx')])

\* C23: a peer task, whatever ends it, sends PeerDisconnected(addr) exactly
\* once: in the step in which it ends (after the loop that sends its PeerFrames,
\* and before the peer is dropped), never before and never again; a task that
\* has left its loop sends no PeerFrame.  (With the dispatcher gone the send
\* has no receiver.)
C23_DisconnectedOnceAtExit ==
    [][/\ \A c \in ConnIds :
            /\ ExitStep(c) =>
                   /\ conns[c].task = "leaving"
                   /\ conns[c].exit \in {"shutdown", "end"}
                   /\ IF Alive
                      THEN rx' = Append(rx, [kind |-> "PeerDisconnected", addr |-> conns[c].addr])
                      ELSE rx' = rx
            /\ conns[c].task = "exited" => conns'[c].task = "exited"
            /\ conns[c].task = "leaving" => conns'[c].task \in {"leaving", "exited"}
       /\ SentKind("PeerDisconnected") =>
              \E c \in ConnIds : ExitStep(c) /\ conns[c].addr = rx'[Len(rx')].addr
       /\ SentKind("PeerFrame") =>
              \E c \in ConnIds : /\ conns[c].task = "running" /\ conns'[c].task = "running"
                                  /\ conns[c].addr = rx'[Len(rx')].addr]_vars

\* a task that its shutdown signal ended and one that the end of its stream
\* ended have both sent their PeerDisconnected
C23_BothWaysDisconnected ==
    /\ \E c \in ConnIds : conns[c].task = "exited" /\ conns[c].exit = "shutdown"
    /\ \E c \in ConnIds : conns[c].task = "exited" /\ conns[c].exit = "end"
    /\ QueuedTicks("PeerDisconnected") >= 1

\* C24: when writing an outbound frame to the socket fails, the peer task
\* leaves its loop in that step; after a failed write it takes no further
\* outbound frame and reads no further inbound frame.
C24_WriteFailureEndsTask ==
    [][\A c \in ConnIds :
         /\ conns[c].sock = "open" /\ conns'[c].sock = "broken" => conns'[c].task = "leaving"
         /\ conns[c].sock = "broken" /\ conns[c].task # "unused" =>
                /\ Len(conns'[c].outq) >= Len(conns[c].outq)
                /\ conns'[c].reads = conns[c].reads]_vars

\* the frame is a whole Identify or Request
WellFormedClientFrame(buf) ==
    LET h == Header_parse(buf)
    IN  /\ h.ok
        /\ \/ h.header.variant = VIdentify /\ Identify_parse(h.rest).ok
           \/ h.header.variant = VRequest /\ Request_parse(h.rest).ok

\* C25: each well-formed inbound frame of a registered peer, Identify as well
\* as Request, sets that peer's last_request to the time of its processing (so
\* that a peer sending such frames more often than every peer_ttl is not idle
\* when a PeerTick is processed).
C25_EveryFrameRefreshes ==
    [][FrameStep /\ peers[Head(rx).addr] # None /\ WellFormedClientFrame(Head(rx).buf)
         => /\ peers'[Head(rx).addr] # None
            /\ peers'[Head(rx).addr][1].last_request = now]_vars

\* the frame at the head of the queue has the version byte and the variant
\* byte of Identify, Established or one of the responses
QuietFrame ==
    /\ Len(Head(rx).buf) >= 2
    /\ Head(rx).buf[1] = PROTOCOL_VERSION
    /\ Head(rx).buf[2] \in QuietVariants

\* C26: a frame with a valid header whose variant is Identify, Established,
\* ResponseOkFound, ResponseOkNotFound or ResponseError changes nothing in the
\* dispatcher but the queue it is taken from: nothing is enqueued, no shutdown
\* is signalled, the limiter is not consulted, the registry and the cache are
\* not touched, whatever follows the header and however often it is sent.
C26_OtherVariantsIgnored ==
    [][FrameStep /\ QuietFrame
         => /\ ~Decision.checked /\ Decision.looked = None /\ Decision.err = ""
            /\ UNCHANGED <<conns, peers, limiter, allowedAt, tree, dstate>>]_vars

\* two frames of these variants were processed for one connection, which still
\* runs with nothing but Established queued or written for it
C26_TwoFramesIgnored ==
    \E c \in ConnIds :
        /\ conns[c].reads = 2
        /\ conns[c].task = "running"
        /\ ~conns[c].changed
        /\ rx = <<>>
        /\ Len(conns[c].wire \o conns[c].outq) = 1

\* no peer task runs any more
NoTaskLeft == \A c \in ConnIds : conns[c].task \in {"unused", "exited"}

\* C27: after the interrupt the dispatcher has returned Ok and processes no
\* further event: no message is taken from the queue, no connection accepted,
\* nothing enqueued, registry, limiter and cache stay as they are; and with the
\* dispatcher's senders gone every running peer task eventually exits.
C27_InterruptEndsAll ==
    /\ [][dstate = "done" =>
            /\ dstate' = "done"
            /\ Len(rx') >= Len(rx)
            /\ ~AcceptStep
            /\ UNCHANGED <<peers, limiter, tree>>
            /\ \A c \in ConnIds : Len(conns'[c].outq) <= Len(conns[c].outq)]_vars
    /\ (dstate = "done") ~> NoTaskLeft

\* the server was interrupted while a task ran, and that task has ended on the
\* shutdown branch without a shutdown signal
C27_TaskEndedAfterInterrupt ==
    /\ dstate = "done"
    /\ \E c \in ConnIds :
         conns[c].task = "exited" /\ conns[c].exit = "shutdown" /\ ~conns[c].changed

\* the dispatcher takes a PeerDisconnected from its queue
TakesDisconnected ==
    /\ rx # <<>> /\ Head(rx).kind = "PeerDisconnected"
    /\ rx' = Tail(rx)

\* the task of the connection has exited, no PeerDisconnected waits at the
\* dispatcher and the registry holds no entry of the connection
Gone(c) ==
    /\ conns[c].task = "exited"
    /\ QueuedTicks("PeerDisconnected") = 0
    /\ ~Registered(c)

Outbound(c) == conns[c].wire \o conns[c].outq

\* C29: ResponseError is the last frame of a connection: no ResponseOkFound and
\* no ResponseOkNotFound is enqueued for, or written to, a peer behind a
\* ResponseError, whatever Requests of the peer waited at the dispatcher.
C29_NothingAfterError ==
    \A c \in ConnIds :
        \A i, j \in DOMAIN Outbound(c) :
            /\ i < j
            /\ Outbound(c)[i][2] = VResponseError
            => Outbound(c)[j][2] \notin {VResponseOkFound, VResponseOkNotFound}

\* C30: while the dispatcher runs, every running peer task has a registry
\* entry of its own: the entry under its address is the one made when it was
\* accepted, also when the address was accepted again while the
\* PeerDisconnected of the previous connection with that address was still
\* unprocessed.
C30_RunningTaskRegistered ==
    dstate = "running" =>
        \A c \in ConnIds : conns[c].task = "running" => Registered(c)

\* the connection is the one the registry holds under the address
KeyedBy(c, addr) == peers[addr] # None /\ peers[addr][1].conn = c

====
